---- MODULE Spec2Model ----
(***************************************************************************)
(* Breadth-first generation of MU-puzzle theorems (src/generator.py).      *)
(*                                                                         *)
(* A string is a sequence of one-character strings.  A TheoremNode object  *)
(* is identified by its position in `nodes`, the sequence of all objects   *)
(* in creation order; the reference None to a node is 0.                   *)
(***************************************************************************)
EXTENDS Integers, Sequences, FiniteSets, TLC

VARIABLES axiom, rules, max_level,
          nodes, seen_theorems, queue,
          current_node, current_level, rule, new_theorem, pc,
          all_theorems, path_node, path,
          popped, tried

\* the state of a call of generate_theorem_tree_optimized
gen_vars == <<axiom, rules, max_level, nodes, seen_theorems, queue,
              current_node, current_level, rule, new_theorem, pc>>

\* the results of the reporting calls made on the returned tree
report_vars == <<all_theorems, path_node, path>>

\* the history of the call, per node: popped[n] counts the times node n was
\* taken from the queue, tried[n] lists the rules called on its theorem
history_vars == <<popped, tried>>

vars == <<gen_vars, report_vars, history_vars>>

(***************************************************************************)
(* Bounds of the checked inputs.                                           *)
(***************************************************************************)
MaxDepth == 4

MaxAxiomLen == 3

\* cap of the history counter popped[n]; no run of the code reaches it
MaxPops == 2

(***************************************************************************)
(* Strings.                                                                *)
(***************************************************************************)
Chars == {"M", "U", "I"}

\* Optional[str]: the value None, which is no string over one-character elements
None == <<"None">>

\* Optional[TheoremNode]: the reference None
NoNode == 0

\* the module constant naming the axiom "MI"
AxiomMI == <<"M", "I">>

endswith(s, c) == Len(s) >= 1 /\ s[Len(s)] = c

startswith(s, c) == Len(s) >= 1 /\ s[1] = c

\* start positions (1-based) at which sub occurs in s
Occurrences(s, sub) ==
  {i \in 1..(Len(s) - Len(sub) + 1) : SubSeq(s, i, i + Len(sub) - 1) = sub}

\* sub in s
contains(s, sub) == Occurrences(s, sub) # {}

RECURSIVE replace_every(_, _, _)
\* s.replace(old, new): every occurrence, left to right, is replaced
replace_every(s, old, new) ==
  IF Occurrences(s, old) = {} THEN s
  ELSE LET i == CHOOSE j \in Occurrences(s, old) :
                  \A k \in Occurrences(s, old) : j <= k
       IN SubSeq(s, 1, i - 1) \o new
            \o replace_every(SubSeq(s, i + Len(old), Len(s)), old, new)

\* s.replace(old, new, 1): only the leftmost occurrence is replaced
replace1(s, old, new) ==
  IF Occurrences(s, old) = {} THEN s
  ELSE LET i == CHOOSE j \in Occurrences(s, old) :
                  \A k \in Occurrences(s, old) : j <= k
       IN SubSeq(s, 1, i - 1) \o new \o SubSeq(s, i + Len(old), Len(s))

(***************************************************************************)
(* The rules.                                                              *)
(***************************************************************************)
rule_0_returns_input(theorem) ==
  IF endswith(theorem, "I") THEN Append(theorem, "U") ELSE theorem

rule_0(theorem) ==
  IF endswith(theorem, "I") THEN Append(theorem, "U") ELSE None

rule_1_any_M(theorem) ==
  IF contains(theorem, <<"M">>) THEN theorem \o Tail(theorem) ELSE None

rule_1_doubles_all(theorem) ==
  IF startswith(theorem, "M") THEN theorem \o theorem ELSE None

rule_1(theorem) ==
  IF startswith(theorem, "M") THEN theorem \o Tail(theorem) ELSE None

rule_2(theorem) ==
  IF contains(theorem, <<"I", "I", "I">>)
  THEN replace1(theorem, <<"I", "I", "I">>, <<"U">>)
  ELSE None

rule_3(theorem) ==
  IF contains(theorem, <<"U", "U">>)
  THEN replace1(theorem, <<"U", "U">>, <<>>)
  ELSE None

\* a rule function is named by its number; RULES = [rule_0, rule_1, rule_2, rule_3]
RULES == <<0, 1, 2, 3>>

\* rule(theorem) for the rule function numbered r
Call(r, theorem) ==
  CASE r = 0 -> rule_0(theorem)
    [] r = 1 -> rule_1(theorem)
    [] r = 2 -> rule_2(theorem)
    [] r = 3 -> rule_3(theorem)

(***************************************************************************)
(* TheoremNode.                                                            *)
(***************************************************************************)
TheoremNode(theorem, level) ==
  [theorem |-> theorem, level |-> level, parent |-> NoNode, children |-> <<>>]

add_child_keeps_parent(ns, self, child) ==
  [ns EXCEPT ![self].children = Append(@, child)]

\* self.children.append(child); child.parent = self
add_child(ns, self, child) ==
  [ns EXCEPT ![self].children = Append(@, child), ![child].parent = self]

get_path_to_root_unreversed(ns, self) ==
  LET PathUp[current \in 0..Len(ns)] ==
        IF current = NoNode THEN <<>>
        ELSE <<ns[current].theorem>> \o PathUp[ns[current].parent]
  IN PathUp[self]

\* list(reversed(seq))
reversed(seq) == [i \in 1..Len(seq) |-> seq[Len(seq) + 1 - i]]

\* while current: path.append(current.theorem); current = current.parent
\* return list(reversed(path))
get_path_to_root(ns, self) ==
  LET PathUp[current \in 0..Len(ns)] ==
        IF current = NoNode THEN <<>>
        ELSE <<ns[current].theorem>> \o PathUp[ns[current].parent]
  IN reversed(PathUp[self])

(***************************************************************************)
(* generate_theorem_tree_optimized.  Its data is the record                *)
(* [nodes, seen_theorems, queue]; a queue entry is <<node, level>>.        *)
(***************************************************************************)
\* root = TheoremNode(axiom, 0); seen_theorems = {axiom}; queue = deque([(root, 0)])
Setup(ax) ==
  [nodes |-> <<TheoremNode(ax, 0)>>,
   seen_theorems |-> {ax},
   queue |-> <<<<1, 0>>>>]

WhileCond_inclusive(q, max) == q # <<>> /\ q[1][2] <= max

\* while queue and queue[0][1] < max_level
WhileCond(q, max) == q # <<>> /\ q[1][2] < max

ForCond_drops_last(k, rs) == k < Len(rs)

\* for rule in rules: the iterator has a k-th item
ForCond(k, rs) == k <= Len(rs)

Skip_no_dedup(nt, seen) == nt = None

\* if new_theorem is None or new_theorem in seen_theorems: continue
Skip(nt, seen) == nt = None \/ nt \in seen

Body_attach_to_root(d, cur, lvl, nt) ==
  IF Skip(nt, d.seen_theorems) THEN d
  ELSE LET child_node == Len(d.nodes) + 1
       IN [nodes |-> add_child(Append(d.nodes, TheoremNode(nt, lvl + 1)),
                               1, child_node),
           seen_theorems |-> d.seen_theorems \cup {nt},
           queue |-> Append(d.queue, <<child_node, lvl + 1>>)]

Body_enqueues_current_level(d, cur, lvl, nt) ==
  IF Skip(nt, d.seen_theorems) THEN d
  ELSE LET child_node == Len(d.nodes) + 1
       IN [nodes |-> add_child(Append(d.nodes, TheoremNode(nt, lvl + 1)),
                               cur, child_node),
           seen_theorems |-> d.seen_theorems \cup {nt},
           queue |-> Append(d.queue, <<child_node, lvl>>)]

\* the body of the for loop, after new_theorem = rule(current_node.theorem)
Body(d, cur, lvl, nt) ==
  IF Skip(nt, d.seen_theorems) THEN d
  ELSE LET child_node == Len(d.nodes) + 1
       IN [nodes |-> add_child(Append(d.nodes, TheoremNode(nt, lvl + 1)),
                               cur, child_node),
           seen_theorems |-> d.seen_theorems \cup {nt},
           queue |-> Append(d.queue, <<child_node, lvl + 1>>)]

RECURSIVE ForLoop(_, _, _, _, _)
\* the for loop from its k-th iteration on
ForLoop(d, cur, lvl, rs, k) ==
  IF ForCond(k, rs)
  THEN ForLoop(Body(d, cur, lvl, Call(rs[k], d.nodes[cur].theorem)),
               cur, lvl, rs, k + 1)
  ELSE d

RECURSIVE WhileLoop(_, _, _)
\* the while loop
WhileLoop(d, rs, max) ==
  IF WhileCond(d.queue, max)
  THEN WhileLoop(ForLoop([d EXCEPT !.queue = Tail(@)],
                         d.queue[1][1], d.queue[1][2], rs, 1),
                 rs, max)
  ELSE d

\* the objects of the tree a call returns (the root is object 1)
generate_theorem_tree_optimized(ax, rs, max) ==
  WhileLoop(Setup(ax), rs, max).nodes

(***************************************************************************)
(* collect_all_theorems.                                                   *)
(***************************************************************************)
RECURSIVE dfs_children_first(_, _, _)
dfs_children_first(ns, node, k) ==
  IF k <= Len(ns[node].children)
  THEN dfs_children_first(ns, ns[node].children[k], 1)
         \o dfs_children_first(ns, node, k + 1)
  ELSE <<node>>

RECURSIVE dfs(_, _, _)
\* dfs(node) from its k-th child on; k = 0 is the call itself:
\* all_theorems.append(node); for child in node.children: dfs(child)
dfs(ns, node, k) ==
  IF k = 0 THEN <<node>> \o dfs(ns, node, 1)
  ELSE IF k <= Len(ns[node].children)
       THEN dfs(ns, ns[node].children[k], 0) \o dfs(ns, node, k + 1)
       ELSE <<>>

collect_all_theorems_children_first(ns, root) == dfs_children_first(ns, root, 1)

\* all_theorems = []; dfs(root); return all_theorems
collect_all_theorems(ns, root) == dfs(ns, root, 0)

(***************************************************************************)
(* The inputs of a call.                                                   *)
(***************************************************************************)
RECURSIVE Strings(_)
\* all strings over Chars of length at most n
Strings(n) ==
  IF n = 0 THEN {<<>>}
  ELSE Strings(n - 1) \cup
       {Append(s, c) : s \in Strings(n - 1), c \in Chars}

Range(f) == {f[i] : i \in DOMAIN f}

\* every order of the four rules
RuleOrders ==
  {p \in [1..Len(RULES) -> Range(RULES)] : \A i, j \in 1..Len(RULES) :
                                               p[i] = p[j] => i = j}

Init ==
  /\ axiom \in Strings(MaxAxiomLen)
  /\ rules \in RuleOrders
  /\ max_level \in -1..MaxDepth
  /\ nodes = Setup(axiom).nodes
  /\ seen_theorems = Setup(axiom).seen_theorems
  /\ queue = Setup(axiom).queue
  /\ current_node = NoNode
  /\ current_level = 0
  /\ rule = 0
  /\ new_theorem = None
  /\ pc = "while"
  /\ all_theorems = <<>>
  /\ path_node = NoNode
  /\ path = <<>>
  /\ popped = <<0>>
  /\ tried = <<<<>>>>

WhileEnter_peek ==
  /\ pc = "while"
  /\ WhileCond(queue, max_level)
  /\ popped[queue[1][1]] < MaxPops
  /\ current_node' = queue[1][1]
  /\ current_level' = queue[1][2]
  /\ queue' = queue
  /\ rule' = 0
  /\ pc' = "for"
  /\ popped' = [popped EXCEPT ![queue[1][1]] = @ + 1]
  /\ UNCHANGED <<axiom, rules, max_level, nodes, seen_theorems, new_theorem,
                 report_vars, tried>>

\* the loop condition holds: current_node, current_level = queue.popleft()
WhileEnter ==
  /\ pc = "while"
  /\ WhileCond(queue, max_level)
  /\ popped[queue[1][1]] < MaxPops
  /\ current_node' = queue[1][1]
  /\ current_level' = queue[1][2]
  /\ queue' = Tail(queue)
  /\ rule' = 0
  /\ pc' = "for"
  /\ popped' = [popped EXCEPT ![queue[1][1]] = @ + 1]
  /\ UNCHANGED <<axiom, rules, max_level, nodes, seen_theorems, new_theorem,
                 report_vars, tried>>

ForBody_any_order ==
  /\ pc = "for"
  /\ ForCond(rule + 1, rules)
  /\ \E k \in 1..Len(rules) :
     LET nt == Call(rules[k], nodes[current_node].theorem)
         d == Body([nodes |-> nodes, seen_theorems |-> seen_theorems,
                    queue |-> queue],
                   current_node, current_level, nt)
         created == Len(d.nodes) - Len(nodes)
     IN /\ new_theorem' = nt
        /\ nodes' = d.nodes
        /\ seen_theorems' = d.seen_theorems
        /\ queue' = d.queue
        /\ popped' = popped \o [i \in 1..created |-> 0]
        /\ tried' = [tried EXCEPT ![current_node] = Append(@, rules[k])]
                      \o [i \in 1..created |-> <<>>]
  /\ rule' = rule + 1
  /\ UNCHANGED <<axiom, rules, max_level, current_node, current_level, pc,
                 report_vars>>

\* one iteration of the for loop, with the next rule
ForBody ==
  /\ pc = "for"
  /\ ForCond(rule + 1, rules)
  /\ LET nt == Call(rules[rule + 1], nodes[current_node].theorem)
         d == Body([nodes |-> nodes, seen_theorems |-> seen_theorems,
                    queue |-> queue],
                   current_node, current_level, nt)
         created == Len(d.nodes) - Len(nodes)
     IN /\ new_theorem' = nt
        /\ nodes' = d.nodes
        /\ seen_theorems' = d.seen_theorems
        /\ queue' = d.queue
        /\ popped' = popped \o [i \in 1..created |-> 0]
        /\ tried' = [tried EXCEPT ![current_node] = Append(@, rules[rule + 1])]
                      \o [i \in 1..created |-> <<>>]
  /\ rule' = rule + 1
  /\ UNCHANGED <<axiom, rules, max_level, current_node, current_level, pc,
                 report_vars>>

\* the rules are exhausted: back to the loop condition
ForExit ==
  /\ pc = "for"
  /\ ~ForCond(rule + 1, rules)
  /\ pc' = "while"
  /\ UNCHANGED <<axiom, rules, max_level, nodes, seen_theorems, queue,
                 current_node, current_level, rule, new_theorem,
                 report_vars, history_vars>>

\* the loop condition fails: return root
WhileExit ==
  /\ pc = "while"
  /\ ~WhileCond(queue, max_level)
  /\ pc' = "returned"
  /\ UNCHANGED <<axiom, rules, max_level, nodes, seen_theorems, queue,
                 current_node, current_level, rule, new_theorem,
                 report_vars, history_vars>>

\* the driver, on the returned root: all_theorems = collect_all_theorems(root),
\* called after the return and again by print_theorems_by_level
CollectAllTheorems ==
  /\ pc \in {"returned", "collected"}
  /\ all_theorems' = collect_all_theorems(nodes, 1)
  /\ pc' = "collected"
  /\ UNCHANGED <<axiom, rules, max_level, nodes, seen_theorems, queue,
                 current_node, current_level, rule, new_theorem,
                 path_node, path, history_vars>>

\* the driver, on the nodes of all_theorems in their order, here without the
\* driver's filter (level >= 2, first three): path = theorem.get_path_to_root()
GetPathToRoot ==
  /\ pc = "collected"
  /\ \E i \in 1..Len(all_theorems) :
       /\ IF path_node = NoNode THEN i = 1
          ELSE i >= 2 /\ all_theorems[i - 1] = path_node
       /\ path_node' = all_theorems[i]
       /\ path' = get_path_to_root(nodes, all_theorems[i])
  /\ UNCHANGED <<gen_vars, all_theorems, history_vars>>

\* the steps of generate_theorem_tree_optimized
Generate == WhileEnter \/ ForBody \/ ForExit \/ WhileExit

Next == Generate \/ CollectAllTheorems \/ GetPathToRoot

Spec == Init /\ [][Next]_vars

\* the call is the only thread and runs without suspension: a step of the
\* loop that is enabled is eventually taken
FairSpec == Spec /\ WF_vars(Generate)

(***************************************************************************)
(* Views of the tree used by the properties.                               *)
(***************************************************************************)
NodeIds(ns) == 1..Len(ns)

\* the set of theorem strings held by the nodes
TheoremSet(ns) == {ns[n].theorem : n \in NodeIds(ns)}

\* the theorem strings with their levels
LevelMap(ns) == {<<ns[n].theorem, ns[n].level>> : n \in NodeIds(ns)}

\* the theorem strings with their levels and their parents' theorems
ParentMap(ns) ==
  {<<ns[n].theorem, ns[n].level,
     IF ns[n].parent = NoNode THEN None ELSE ns[ns[n].parent].theorem>> :
     n \in NodeIds(ns)}

\* the parent-to-child edges <<p, k>>: the k-th child of node p
ChildEdges(ns) ==
  UNION {{<<p, k>> : k \in 1..Len(ns[p].children)} : p \in NodeIds(ns)}

\* the edges that end in node n
InEdges(ns, n) == {e \in ChildEdges(ns) : ns[e[1]].children[e[2]] = n}

RECURSIVE Descendants(_, _)
\* n and the nodes below it, following children
Descendants(ns, n) ==
  {n} \cup UNION {Descendants(ns, ns[n].children[k]) :
                    k \in 1..Len(ns[n].children)}

\* the strings one application of a rule of rs gives from a string of S
RuleOutputs(S, rs) ==
  {Call(rs[k], t) : t \in S, k \in 1..Len(rs)} \ {None}

RECURSIVE Derivable(_, _, _)
\* the strings obtainable from ax by at most k applications of rules of rs
Derivable(ax, rs, k) ==
  IF k = 0 THEN {ax}
  ELSE LET D == Derivable(ax, rs, k - 1) IN D \cup RuleOutputs(D, rs)

\* the tree the same call builds with the rules in the order of RULES
ReferenceTree == generate_theorem_tree_optimized(axiom, RULES, max_level)

(***************************************************************************)
(* C1  Uniqueness: at every step of the construction and in the returned   *)
(* tree no two distinct nodes hold the same theorem string (the root       *)
(* included).                                                              *)
(***************************************************************************)
C1_Uniqueness ==
  \A m, n \in NodeIds(nodes) : nodes[m].theorem = nodes[n].theorem => m = n

\* a rule has just produced a string that a node derived elsewhere already holds
C1_Witness ==
  /\ pc = "for" /\ rule >= 1 /\ new_theorem # None
  /\ \E n \in NodeIds(nodes) \ {current_node} :
       /\ nodes[n].theorem = new_theorem
       /\ nodes[n].parent # current_node

(***************************************************************************)
(* C2  Depth bound: when max_level >= 0, no node ever has a level above    *)
(* max_level, during the loop and in the returned tree.                    *)
(***************************************************************************)
C2_DepthBound ==
  max_level >= 0 => \A n \in NodeIds(nodes) : nodes[n].level <= max_level

\* the loop was left by the depth check, with nodes of level max_level queued
C2_Witness ==
  /\ pc = "returned" /\ max_level >= 2 /\ queue # <<>>
  /\ \E n \in NodeIds(nodes) : nodes[n].level = max_level

(***************************************************************************)
(* C3  Level consistency: the root has level 0 and no parent, it is the    *)
(* only node without a parent, and the level of every other node is its    *)
(* parent's level plus one, in every state of the construction.            *)
(***************************************************************************)
C3_LevelConsistency ==
  /\ nodes[1].level = 0
  /\ nodes[1].parent = NoNode
  /\ \A n \in NodeIds(nodes) \ {1} :
       /\ nodes[n].parent \in NodeIds(nodes)
       /\ nodes[n].level = nodes[nodes[n].parent].level + 1

\* a node of level 2 exists while the loop is still running
C3_Witness ==
  /\ pc = "for"
  /\ \E n \in NodeIds(nodes) : nodes[n].level = 2 /\ nodes[n].parent # 1

(***************************************************************************)
(* C4  Valid derivations: in the returned tree every node has exactly one  *)
(* path from the root (the root has no incoming edge, every other node     *)
(* exactly one, and every node is below the root), and every edge is one   *)
(* application of a supplied rule to the parent's theorem.                 *)
(***************************************************************************)
C4_ValidDerivations ==
  pc = "returned" =>
    /\ InEdges(nodes, 1) = {}
    /\ \A n \in NodeIds(nodes) \ {1} : Cardinality(InEdges(nodes, n)) = 1
    /\ Descendants(nodes, 1) = NodeIds(nodes)
    /\ \A e \in ChildEdges(nodes) :
         \E k \in 1..Len(rules) :
           Call(rules[k], nodes[e[1]].theorem)
             = nodes[nodes[e[1]].children[e[2]]].theorem

\* a returned tree with a derivation of three rule applications
C4_Witness ==
  /\ pc = "returned"
  /\ \E n \in NodeIds(nodes) : nodes[n].level = 3

(***************************************************************************)
(* C5  Rule-order independence of the discovered set: with the same axiom  *)
(* and max_level, the returned tree holds the same set of theorem strings  *)
(* under every order of the four rules.                                    *)
(***************************************************************************)
C5_RuleOrderSameSet ==
  pc = "returned" => TheoremSet(nodes) = TheoremSet(ReferenceTree)

\* a call with another rule order has returned a tree that differs from RULES' tree
C5_Witness ==
  /\ pc = "returned" /\ rules # RULES /\ Len(nodes) >= 5
  /\ nodes # ReferenceTree

(***************************************************************************)
(* C6  as claimed: under every order of the four rules every discovered    *)
(* theorem has the same parent theorem and the same level.                 *)
(***************************************************************************)
C6_RuleOrderSameParents ==
  pc = "returned" => ParentMap(nodes) = ParentMap(ReferenceTree)

(***************************************************************************)
(* C6  as amended: under every order of the four rules every discovered    *)
(* theorem has the same level; its parent can differ.                      *)
(***************************************************************************)
C6_RuleOrderSameLevels ==
  pc = "returned" => LevelMap(nodes) = LevelMap(ReferenceTree)

\* axiom MI, max_level 4: a theorem has another parent than under RULES
C6_Witness ==
  /\ pc = "returned" /\ axiom = AxiomMI /\ max_level = 4
  /\ ParentMap(nodes) # ParentMap(ReferenceTree)

(***************************************************************************)
(* C7  Negative depth bound fails fast: a call with max_level < 0 does not *)
(* return a tree.                                                          *)
(***************************************************************************)
C7_NegativeDepthFailsFast ==
  max_level < 0 => pc # "returned"

(***************************************************************************)
(* C8  as claimed: whenever a rule is applicable to a string, its output   *)
(* differs from the string.                                                *)
(***************************************************************************)
C8_ApplicableRuleChanges ==
  (rule >= 1 /\ new_theorem # None) =>
    new_theorem # nodes[current_node].theorem

(***************************************************************************)
(* C8  as amended: whenever a rule is applicable to a string, its output   *)
(* differs from the string, except for rule_1 applied to the string "M",   *)
(* whose output is "M".                                                    *)
(***************************************************************************)
C8_ApplicableRuleChangesButM ==
  (rule >= 1 /\ new_theorem # None) =>
    \/ new_theorem # nodes[current_node].theorem
    \/ (rules[rule] = 1 /\ nodes[current_node].theorem = <<"M">>)

\* rule_3 has been applicable to a string of the longest axiom length
C8_Witness ==
  /\ rule >= 1 /\ new_theorem # None
  /\ rules[rule] = 3
  /\ Len(nodes[current_node].theorem) = MaxAxiomLen

(***************************************************************************)
(* C9  Depth-1 end-to-end: the call with axiom "MI", RULES and max_level 1 *)
(* returns the root "MI" with the children "MIU" then "MII", both leaves   *)
(* of level 1, and no other node.                                          *)
(***************************************************************************)
C9_DepthOne ==
  (pc = "returned" /\ axiom = AxiomMI /\ rules = RULES /\ max_level = 1) =>
    nodes = << [theorem |-> <<"M", "I">>, level |-> 0,
                parent |-> NoNode, children |-> <<2, 3>>],
               [theorem |-> <<"M", "I", "U">>, level |-> 1,
                parent |-> 1, children |-> <<>>],
               [theorem |-> <<"M", "I", "I">>, level |-> 1,
                parent |-> 1, children |-> <<>>] >>

\* that call has returned
C9_Witness ==
  pc = "returned" /\ axiom = AxiomMI /\ rules = RULES /\ max_level = 1
    /\ Len(nodes) = 3

(***************************************************************************)
(* C10  Depth-0 boundary: with max_level = 0 no rule is ever applied and   *)
(* the tree is always the single root, holding the axiom at level 0 with   *)
(* no children.                                                            *)
(***************************************************************************)
C10_DepthZero ==
  max_level = 0 =>
    /\ pc # "for" /\ rule = 0 /\ new_theorem = None
    /\ nodes = <<TheoremNode(axiom, 0)>>

\* a call with max_level 0 has returned although rules apply to its axiom
C10_Witness ==
  /\ pc = "returned" /\ max_level = 0
  /\ \E k \in 1..Len(rules) : Call(rules[k], axiom) # None

(***************************************************************************)
(* C11  Path reconstruction: for any node of a generated tree,             *)
(* get_path_to_root returns the theorems from the root to the node, root   *)
(* first: level + 1 entries, the i-th being the theorem of the node's      *)
(* ancestor of level i - 1 (so the first is the axiom and the last the     *)
(* node's own theorem).  With axiom "MI", RULES and max_level >= 3 the     *)
(* tree holds "MUI" at level 3 and its path is MI, MII, MIIII, MUI.        *)
(***************************************************************************)
C11_PathToRoot ==
  /\ path_node # NoNode =>
       /\ Len(path) = nodes[path_node].level + 1
       /\ path[1] = axiom
       /\ path[Len(path)] = nodes[path_node].theorem
       /\ \A n \in NodeIds(nodes) :
            path_node \in Descendants(nodes, n) =>
              path[nodes[n].level + 1] = nodes[n].theorem
  /\ (pc \in {"returned", "collected"} /\ axiom = AxiomMI /\ rules = RULES
        /\ max_level >= 3) =>
       /\ \E n \in NodeIds(nodes) :
            nodes[n].theorem = <<"M", "U", "I">> /\ nodes[n].level = 3
       /\ (path_node # NoNode
             /\ nodes[path_node].theorem = <<"M", "U", "I">>) =>
            path = << <<"M", "I">>, <<"M", "I", "I">>,
                      <<"M", "I", "I", "I", "I">>, <<"M", "U", "I">> >>

\* the path of "MUI" has been computed in the tree of axiom "MI" under RULES
C11_Witness ==
  /\ pc = "collected" /\ axiom = AxiomMI /\ rules = RULES /\ max_level >= 3
  /\ path_node # NoNode
  /\ nodes[path_node].theorem = <<"M", "U", "I">>
  /\ Len(path) = 4

(***************************************************************************)
(* C12  Leftmost single rewrite: rule_2 is applicable iff "III" occurs in  *)
(* the string and replaces only the leftmost occurrence by "U"; rule_3 is  *)
(* applicable iff "UU" occurs and removes only the leftmost occurrence;    *)
(* every other character is kept and the result is not scanned again       *)
(* (rule_2("MIIII") = "MUI", rule_3("MUUUU") = "MUU").                     *)
(***************************************************************************)
C12_LeftmostSingleRewrite ==
  rule >= 1 =>
    LET t == nodes[current_node].theorem
        III(i) == i + 2 <= Len(t) /\ t[i] = "I" /\ t[i + 1] = "I"
                    /\ t[i + 2] = "I"
        UU(i) == i + 1 <= Len(t) /\ t[i] = "U" /\ t[i + 1] = "U"
    IN /\ rules[rule] = 2 =>
            IF \E i \in 1..Len(t) : III(i)
            THEN /\ new_theorem # None
                 /\ Len(new_theorem) = Len(t) - 2
                 /\ \E i \in 1..Len(t) :
                      /\ III(i)
                      /\ \A j \in 1..(i - 1) : ~III(j)
                      /\ \A k \in 1..Len(new_theorem) :
                           new_theorem[k] = IF k < i THEN t[k]
                                            ELSE IF k = i THEN "U"
                                            ELSE t[k + 2]
            ELSE new_theorem = None
       /\ rules[rule] = 3 =>
            IF \E i \in 1..Len(t) : UU(i)
            THEN /\ new_theorem # None
                 /\ Len(new_theorem) = Len(t) - 2
                 /\ \E i \in 1..Len(t) :
                      /\ UU(i)
                      /\ \A j \in 1..(i - 1) : ~UU(j)
                      /\ \A k \in 1..Len(new_theorem) :
                           new_theorem[k] = IF k < i THEN t[k] ELSE t[k + 2]
            ELSE new_theorem = None
       /\ (rules[rule] = 2 /\ t = <<"M", "I", "I", "I", "I">>) =>
            new_theorem = <<"M", "U", "I">>
       /\ (rules[rule] = 3 /\ t = <<"M", "U", "U", "U", "U">>) =>
            new_theorem = <<"M", "U", "U">>

\* rule_3 has been called on "MUUUU", which holds two disjoint "UU"
C12_Witness ==
  /\ rule >= 1 /\ rules[rule] = 3
  /\ nodes[current_node].theorem = <<"M", "U", "U", "U", "U">>
  /\ new_theorem = <<"M", "U", "U">>

(***************************************************************************)
(* C13  as claimed: for an axiom that is empty or does not begin with "M"  *)
(* the call returns, for every max_level >= 0, the root alone.             *)
(***************************************************************************)
C13_DegenerateAxioms ==
  (pc = "returned" /\ max_level >= 0 /\ ~startswith(axiom, "M")) =>
    nodes = <<TheoremNode(axiom, 0)>>

(***************************************************************************)
(* C13  as amended: for an axiom that is empty, or that does not begin     *)
(* with "M", does not end in "I" and holds neither "III" nor "UU", the     *)
(* call returns, for every max_level >= 0, the root alone.                 *)
(***************************************************************************)
C13_NoRuleAxioms ==
  (/\ pc = "returned" /\ max_level >= 0
   /\ ~startswith(axiom, "M") /\ ~endswith(axiom, "I")
   /\ ~contains(axiom, <<"I", "I", "I">>) /\ ~contains(axiom, <<"U", "U">>)) =>
    nodes = <<TheoremNode(axiom, 0)>>

\* a call with such an axiom of the longest length returned from a loop that ran
C13_Witness ==
  /\ pc = "returned" /\ max_level >= 1 /\ rule = Len(rules)
  /\ Len(axiom) = MaxAxiomLen
  /\ ~startswith(axiom, "M") /\ ~endswith(axiom, "I")
  /\ ~contains(axiom, <<"I", "I", "I">>) /\ ~contains(axiom, <<"U", "U">>)
  /\ Len(nodes) = 1

(***************************************************************************)
(* C14  Determinism: the tree a call returns is a function of (axiom, rule *)
(* order, max_level): whenever the call is at the head of its loop,        *)
(* running the loop on from that state ends with the very tree (same       *)
(* children in the same order, same theorem and level at every node) that  *)
(* the call with these inputs computes, and the returned tree is that      *)
(* tree; so two runs with the same inputs cannot differ.                   *)
(***************************************************************************)
C14_Determinism ==
  LET d == [nodes |-> nodes, seen_theorems |-> seen_theorems, queue |-> queue]
  IN /\ pc = "while" =>
          WhileLoop(d, rules, max_level).nodes
            = generate_theorem_tree_optimized(axiom, rules, max_level)
     /\ pc = "returned" =>
          nodes = generate_theorem_tree_optimized(axiom, rules, max_level)

\* the loop is back at its head after expanding a node below the root
C14_Witness ==
  /\ pc = "while" /\ rule = Len(rules) /\ current_level >= 2
  /\ Len(nodes) >= 5 /\ queue # <<>>

(***************************************************************************)
(* C15  Exhaustive bounded enumeration with minimal levels: the returned   *)
(* tree holds exactly the strings obtainable from the axiom by at most     *)
(* max_level rule applications, and the level of each node is the least    *)
(* number of rule applications that derives its theorem.                   *)
(***************************************************************************)
C15_ExhaustiveMinimalLevels ==
  (pc = "returned" /\ max_level >= 0) =>
    LET within == [k \in 0..max_level |-> Derivable(axiom, rules, k)]
    IN /\ TheoremSet(nodes) = within[max_level]
       /\ \A n \in NodeIds(nodes) :
            /\ nodes[n].level \in 0..max_level
            /\ nodes[n].theorem \in within[nodes[n].level]
            /\ nodes[n].level >= 1 =>
                 nodes[n].theorem \notin within[nodes[n].level - 1]

\* a returned tree of depth >= 3 in which a rule output was met a second time
C15_Witness ==
  /\ pc = "returned" /\ max_level >= 3
  /\ \E n \in NodeIds(nodes) : nodes[n].level = max_level
  /\ \E m, n \in NodeIds(nodes) : \E k \in 1..Len(rules) :
       /\ Call(rules[k], nodes[m].theorem) = nodes[n].theorem
       /\ nodes[n].parent # m

(***************************************************************************)
(* C16  Exit boundary (max_level >= 0): no node of level max_level is ever *)
(* taken from the queue or has a rule called on it; and when the loop has  *)
(* exited, every node of a level below max_level has been taken from the   *)
(* queue once and had each rule called on it once, in the order of rules,  *)
(* and every node still queued has level max_level and no children.        *)
(***************************************************************************)
C16_ExitBoundary ==
  max_level >= 0 =>
    /\ \A n \in NodeIds(nodes) :
         nodes[n].level >= max_level => popped[n] = 0 /\ tried[n] = <<>>
    /\ pc = "returned" =>
         /\ \A n \in NodeIds(nodes) :
              nodes[n].level < max_level => popped[n] = 1 /\ tried[n] = rules
         /\ \A i \in 1..Len(queue) :
              /\ queue[i][2] = max_level
              /\ nodes[queue[i][1]].level = max_level
              /\ nodes[queue[i][1]].children = <<>>

\* the loop was left by the depth check with several nodes still queued
C16_Witness ==
  /\ pc = "returned" /\ max_level >= 2 /\ Len(queue) >= 2
  /\ \E n \in NodeIds(nodes) : nodes[n].level = max_level - 1 /\ popped[n] = 1

(***************************************************************************)
(* C17  Termination: for every axiom, rule order and max_level the call    *)
(* eventually returns.                                                     *)
(***************************************************************************)
C17_Termination == <>(pc = "returned")

\* a call with max_level >= 3 on a string that rule_1 keeps doubling has returned
C17_Witness ==
  /\ pc = "returned" /\ max_level >= 3 /\ startswith(axiom, "M")
  /\ \E n \in NodeIds(nodes) : Len(nodes[n].theorem) > 2 * Len(axiom)

(***************************************************************************)
(* C18  Node lifecycle frame: in every step the theorem, level and parent  *)
(* of every existing node stay as they are and a new node has its parent   *)
(* from its first state on; the children of a node only grow at the end,   *)
(* and only in an iteration of the for loop that expands this very node,   *)
(* taken from the queue once; no node is taken from the queue twice.       *)
(***************************************************************************)
C18_NodeLifecycle ==
  [][/\ Len(nodes') >= Len(nodes)
     /\ \A n \in NodeIds(nodes) :
          /\ nodes'[n].theorem = nodes[n].theorem
          /\ nodes'[n].level = nodes[n].level
          /\ nodes'[n].parent = nodes[n].parent
          /\ Len(nodes'[n].children) >= Len(nodes[n].children)
          /\ SubSeq(nodes'[n].children, 1, Len(nodes[n].children))
               = nodes[n].children
          /\ nodes'[n].children # nodes[n].children =>
               pc = "for" /\ n = current_node /\ popped[n] = 1
     /\ \A n \in NodeIds(nodes') \ NodeIds(nodes) :
          nodes'[n].parent = current_node
     /\ \A n \in NodeIds(nodes') : popped'[n] <= 1]_vars

\* a node below the root is being expanded and has got two children
C18_Witness ==
  /\ pc = "for" /\ current_node # 1
  /\ Len(nodes[current_node].children) >= 2

(***************************************************************************)
(* C19  Depth-first collect: on a returned tree collect_all_theorems       *)
(* returns every node exactly once, each node directly followed by the     *)
(* block of its descendants (so before all of them) and siblings in their  *)
(* stored order; no step after the return changes the tree, and a          *)
(* repeated call returns the same sequence.                                *)
(***************************************************************************)
C19_DepthFirstCollect ==
  /\ [](all_theorems # <<>> =>
         LET Pos(n) == CHOOSE i \in 1..Len(all_theorems) : all_theorems[i] = n
         IN /\ Len(all_theorems) = Len(nodes)
            /\ Range(all_theorems) = NodeIds(nodes)
            /\ \A n \in NodeIds(nodes) :
                 /\ Pos(n) + Cardinality(Descendants(nodes, n)) - 1
                      <= Len(all_theorems)
                 /\ {all_theorems[i] :
                       i \in Pos(n)..(Pos(n)
                                + Cardinality(Descendants(nodes, n)) - 1)}
                      = Descendants(nodes, n)
                 /\ \A i, j \in 1..Len(nodes[n].children) :
                      i < j => Pos(nodes[n].children[i])
                                 < Pos(nodes[n].children[j]))
  /\ [][(pc = "returned" \/ pc = "collected") =>
          /\ nodes' = nodes
          /\ all_theorems # <<>> => all_theorems' = all_theorems]_vars

\* a collected tree whose pre-order differs from the order of creation
C19_Witness ==
  /\ Len(all_theorems) >= 6
  /\ \E i \in 1..Len(all_theorems) : all_theorems[i] # i
  /\ path_node # NoNode

(***************************************************************************)
(* C20  Queue discipline: in every state the depths recorded in the queue  *)
(* do not decrease from front to back and differ by at most one, each      *)
(* entry's depth is its node's level, every queued node has no children,   *)
(* and every node has been enqueued exactly once: it is in the queue once  *)
(* and was never taken from it, or is not in the queue and was taken once. *)
(***************************************************************************)
C20_QueueDiscipline ==
  /\ \A i, j \in 1..Len(queue) : i < j => queue[i][2] <= queue[j][2]
  /\ queue # <<>> => queue[Len(queue)][2] - queue[1][2] <= 1
  /\ \A i \in 1..Len(queue) :
       /\ queue[i][1] \in NodeIds(nodes)
       /\ queue[i][2] = nodes[queue[i][1]].level
       /\ nodes[queue[i][1]].children = <<>>
  /\ \A n \in NodeIds(nodes) :
       Cardinality({i \in 1..Len(queue) : queue[i][1] = n}) + popped[n] = 1

\* the queue holds nodes of two levels
C20_Witness ==
  /\ Len(queue) >= 3
  /\ queue[1][2] + 1 = queue[Len(queue)][2]

====
